---- MODULE Spec2Model ----
(***************************************************************************)
(* Model of processExpression (src/code.cpp): the lexer, the two-stack     *)
(* operator-precedence reduction and the final assignment.  One run of the *)
(* state machine is one call of processExpression on one input string.     *)
(***************************************************************************)
EXTENDS Integers, Sequences, FiniteSets, TLC

(***************************************************************************)
(* Bounds of the inputs.                                                   *)
(***************************************************************************)
\* arbitrary character strings have at most MaxChars characters
MaxChars == 3
\* arbitrary token strings have at most MaxToks tokens
MaxToks == 5
\* well-formed expressions have at most MaxSize operators plus parenthesis pairs
MaxSize == 4

(***************************************************************************)
(* Characters, as <cctype> and strchr classify them.  A character is a     *)
(* string of length one; an expression is a sequence of characters.        *)
(***************************************************************************)
Letters == {"a", "b", "c", "d", "e", "f", "g", "t"}
Digits == {"1"}
OperatorChars == {"+", "-", "*", "/", "%", "^"}
ParenChars == {"(", ")"}

isspace(c) == c = " "
isdigit(c) == c \in Digits
isalpha(c) == c \in Letters
isalnum(c) == isalpha(c) \/ isdigit(c)
\* strchr("+-*/%^()", c) for a character c other than NUL
strchr(c) == c \in OperatorChars \cup ParenChars

\* Token(type, value)
Token(t, v) == [type |-> t, value |-> v]

\* Instruction(op, arg1, arg2, result)
Instruction(o, a1, a2, r) == [op |-> o, arg1 |-> a1, arg2 |-> a2, result |-> r]

(***************************************************************************)
(* Step 1: tokenization.                                                   *)
(***************************************************************************)
\* the string made of the characters e[i], ..., e[j-1]  (current += e[i++])
RECURSIVE Text(_, _, _)
Text(e, i, j) == IF i >= j THEN "" ELSE e[i] \o Text(e, i + 1, j)

\* where the inner loop of a numeric literal stops
RECURSIVE NumberEnd(_, _)
NumberEnd(e, i) ==
    IF i <= Len(e) /\ (isdigit(e[i]) \/ e[i] = ".") THEN NumberEnd(e, i + 1) ELSE i

\* where the inner loop of an identifier stops
RECURSIVE VariableEnd(_, _)
VariableEnd(e, i) ==
    IF i <= Len(e) /\ (isalnum(e[i]) \/ e[i] = "_") THEN VariableEnd(e, i + 1) ELSE i

\* the tokens of e[i..]
RECURSIVE TokenizeFrom(_, _)
TokenizeFrom(e, i) ==
    IF i > Len(e) THEN <<>>
    ELSE LET c == e[i] IN
         IF isspace(c) THEN TokenizeFrom(e, i + 1)
         ELSE IF isdigit(c)
              THEN LET j == NumberEnd(e, i)
                   IN  <<Token("NUMBER", Text(e, i, j))>> \o TokenizeFrom(e, j)
         ELSE IF isalpha(c)
              THEN LET j == VariableEnd(e, i)
                   IN  <<Token("VARIABLE", Text(e, i, j))>> \o TokenizeFrom(e, j)
         ELSE IF strchr(c)
              THEN <<Token(IF c \in ParenChars THEN "PARENTHESIS" ELSE "OPERATOR", c)>>
                       \o TokenizeFrom(e, i + 1)
         ELSE TokenizeFrom(e, i + 1)

Tokenize(e) == TokenizeFrom(e, 1)

(***************************************************************************)
(* Step 2: precedence, and the names of the temporaries.                   *)
(***************************************************************************)
\* a variant that gives "*" the precedence of "+"
getPrecedence_flat(op) ==
    IF op = "+" \/ op = "-" \/ op = "*" THEN 1
    ELSE IF op = "/" \/ op = "%" THEN 2
    ELSE IF op = "^" THEN 3
    ELSE 0

getPrecedence(op) ==
    IF op = "+" \/ op = "-" THEN 1
    ELSE IF op = "*" \/ op = "/" \/ op = "%" THEN 2
    ELSE IF op = "^" THEN 3
    ELSE 0

\* "t" + to_string(n)
TempVar(n) == "t" \o ToString(n)

(***************************************************************************)
(* The inputs: the expression string and the result variable.              *)
(***************************************************************************)
\* the characters of the arbitrary strings: a letter, a digit, the dot, the
\* underscore, a blank, a character the lexer does not know, operators, parentheses
InputChars == {"a", "1", ".", "_", " ", "="} \cup OperatorChars \cup ParenChars

\* every sequence over S of length at most n
SeqsUpTo(S, n) == UNION {[1..m -> S] : m \in 0..n}

\* the tokens of the arbitrary token strings, each spelled as its characters
InputTokens == {<<"a">>, <<"t", "1">>, <<"+">>, <<"*">>, <<"^">>, <<"(">>, <<")">>}

\* the tokens ts written one after the other, separated by blanks
RECURSIVE Spell(_)
Spell(ts) ==
    IF ts = <<>> THEN <<>>
    ELSE IF Len(ts) = 1 THEN ts[1]
    ELSE ts[1] \o <<" ">> \o Spell(Tail(ts))

\* well-formed expressions with exactly s operators plus parenthesis pairs, every
\* operand written "o":  E ::= A | A op E,  A ::= o | ( E )
RECURSIVE Shapes(_)
Wrapped(s) == IF s = 0 THEN {} ELSE {<<"(">> \o e \o <<")">> : e \in Shapes(s - 1)}
Atoms(s) == IF s = 0 THEN {<<"o">>} ELSE Wrapped(s)
Shapes(s) ==
    Atoms(s) \cup
    UNION {{a \o <<op>> \o w : a \in Atoms(s1), op \in OperatorChars, w \in Shapes(s - 1 - s1)}
           : s1 \in 0..(s - 1)}

\* the operands of a well-formed expression are named by their position
OperandNames == <<"a", "b", "c", "d", "e", "f", "g">>
RECURSIVE Named(_, _)
Named(sh, n) ==
    IF sh = <<>> THEN <<>>
    ELSE IF Head(sh) = "o" THEN <<<<OperandNames[n]>>>> \o Named(Tail(sh), n + 1)
    ELSE <<<<Head(sh)>>>> \o Named(Tail(sh), n)

WellFormedInputs == {Spell(Named(sh, 1)) : sh \in UNION {Shapes(s) : s \in 0..MaxSize}}

Expressions ==
    SeqsUpTo(InputChars, MaxChars)
        \cup {Spell(ts) : ts \in SeqsUpTo(InputTokens, MaxToks)}
        \cup WellFormedInputs

\* short expressions are tried with every result variable, the others with "x"
ResultVars(e) == IF Len(e) <= MaxChars THEN {"x", "y"} ELSE {"x"}

(***************************************************************************)
(* The state of one call.                                                  *)
(***************************************************************************)
VARIABLES
    expression,     \* the expression string, a sequence of characters
    resultVar,      \* the name of the result variable
    tokens,         \* vector<Token> tokens
    next,           \* the position in tokens of the range-for loop of step 3
    operators,      \* stack<Token> operators, the top is the last element
    operands,       \* stack<string> operands, the top is the last element
    tempCount,      \* int tempCount
    instructions,   \* vector<Instruction> instructions
    pc,             \* "lex", "scan", "drain", "done" (returned) or "crashed"
    underflow       \* TRUE once top()/pop() was called on an empty operand stack

vars == <<expression, resultVar, tokens, next, operators, operands, tempCount,
          instructions, pc, underflow>>

Init ==
    /\ expression \in Expressions
    /\ resultVar \in ResultVars(expression)
    /\ tokens = <<>>
    /\ next = 1
    /\ operators = <<>>
    /\ operands = <<>>
    /\ tempCount = 1
    /\ instructions = <<>>
    /\ pc = "lex"
    /\ underflow = FALSE

Top(s) == s[Len(s)]
Pop(s) == SubSeq(s, 1, Len(s) - 1)

\* stands for whatever a read of the top of an empty operand stack yields when the
\* call goes on
Garbage == "?"

\* Step 1, lines 37-66
Lex ==
    /\ pc = "lex"
    /\ tokens' = Tokenize(expression)
    /\ pc' = "scan"
    /\ UNCHANGED <<expression, resultVar, next, operators, operands, tempCount,
                   instructions, underflow>>

\* a variant that does not advance the counter (tempCount instead of tempCount++)
processOperator_samecount ==
    LET op == Top(operators).value
        n == Len(operands)
        tempVar == TempVar(tempCount)
    IN  /\ operators' = Pop(operators)
        /\ IF n >= 2
           THEN /\ instructions' =
                       Append(instructions, Instruction(op, operands[n - 1], operands[n], tempVar))
                /\ operands' = Append(SubSeq(operands, 1, n - 2), tempVar)
                /\ UNCHANGED <<tempCount, pc, underflow>>
           ELSE /\ underflow' = TRUE
                /\ pc' = "crashed"
                /\ operands' = <<>>
                /\ UNCHANGED <<instructions, tempCount>>
        /\ UNCHANGED <<expression, resultVar, tokens, next>>

\* a variant that does not push the temporary back onto the operand stack
processOperator_nopush ==
    LET op == Top(operators).value
        n == Len(operands)
        tempVar == TempVar(tempCount)
    IN  /\ operators' = Pop(operators)
        /\ IF n >= 2
           THEN /\ instructions' =
                       Append(instructions, Instruction(op, operands[n - 1], operands[n], tempVar))
                /\ operands' = SubSeq(operands, 1, n - 2)
                /\ tempCount' = tempCount + 1
                /\ UNCHANGED <<pc, underflow>>
           ELSE /\ underflow' = TRUE
                /\ pc' = "crashed"
                /\ operands' = <<>>
                /\ UNCHANGED <<instructions, tempCount>>
        /\ UNCHANGED <<expression, resultVar, tokens, next>>

\* One call of the lambda processOperator.  With fewer than two operands the
\* behaviour is undefined: the call crashes, or it goes on with garbage in
\* place of the missing operands.
processOperator ==
    LET op == Top(operators).value
        n == Len(operands)
        tempVar == TempVar(tempCount)
    IN  /\ operators' = Pop(operators)
        /\ IF n >= 2
           THEN /\ instructions' =
                       Append(instructions, Instruction(op, operands[n - 1], operands[n], tempVar))
                /\ operands' = Append(SubSeq(operands, 1, n - 2), tempVar)
                /\ tempCount' = tempCount + 1
                /\ UNCHANGED <<pc, underflow>>
           ELSE /\ underflow' = TRUE
                /\ \E crash \in BOOLEAN :
                      IF crash
                      THEN /\ pc' = "crashed"
                           /\ operands' = <<>>
                           /\ UNCHANGED <<instructions, tempCount>>
                      ELSE /\ instructions' =
                                  Append(instructions,
                                         Instruction(op, Garbage, IF n = 1 THEN operands[1] ELSE Garbage,
                                                     tempVar))
                           /\ operands' = <<tempVar>>
                           /\ tempCount' = tempCount + 1
                           /\ pc' = pc
        /\ UNCHANGED <<expression, resultVar, tokens, next>>

AtToken == pc = "scan" /\ next <= Len(tokens)
token == tokens[next]

\* lines 94-96
PushOperand ==
    /\ AtToken
    /\ token.type = "NUMBER" \/ token.type = "VARIABLE"
    /\ operands' = Append(operands, token.value)
    /\ next' = next + 1
    /\ UNCHANGED <<expression, resultVar, tokens, operators, tempCount, instructions,
                   pc, underflow>>

\* a variant that treats "^" as left-associative like the other operators
MustReduce_leftassoc ==
    /\ operators # <<>>
    /\ Top(operators).type = "OPERATOR"
    /\ getPrecedence(Top(operators).value) >= getPrecedence(token.value)

\* the condition of the while loop of lines 100-102
MustReduce ==
    LET isRightAssoc == token.value = "^"
    IN  /\ operators # <<>>
        /\ Top(operators).type = "OPERATOR"
        /\ \/ ~isRightAssoc /\ getPrecedence(Top(operators).value) >= getPrecedence(token.value)
           \/ isRightAssoc /\ getPrecedence(Top(operators).value) > getPrecedence(token.value)

\* lines 97-104: one iteration of the while loop
OperatorReduce ==
    /\ AtToken
    /\ token.type = "OPERATOR"
    /\ MustReduce
    /\ processOperator

\* line 105
OperatorPush ==
    /\ AtToken
    /\ token.type = "OPERATOR"
    /\ ~MustReduce
    /\ operators' = Append(operators, token)
    /\ next' = next + 1
    /\ UNCHANGED <<expression, resultVar, tokens, operands, tempCount, instructions,
                   pc, underflow>>

\* lines 107-109
OpenParen ==
    /\ AtToken
    /\ token.type = "PARENTHESIS"
    /\ token.value = "("
    /\ operators' = Append(operators, token)
    /\ next' = next + 1
    /\ UNCHANGED <<expression, resultVar, tokens, operands, tempCount, instructions,
                   pc, underflow>>

AtCloseParen == AtToken /\ token.type = "PARENTHESIS" /\ token.value = ")"

\* a variant that pops the operators inside the parentheses without reducing them
CloseParenReduce_drop ==
    /\ AtCloseParen
    /\ operators # <<>> /\ Top(operators).value # "("
    /\ operators' = Pop(operators)
    /\ UNCHANGED <<expression, resultVar, tokens, next, operands, tempCount,
                   instructions, pc, underflow>>

\* lines 110-113: one iteration of the while loop
CloseParenReduce ==
    /\ AtCloseParen
    /\ operators # <<>> /\ Top(operators).value # "("
    /\ processOperator

\* a variant that pushes a close parenthesis that finds the operator stack empty
CloseParenDiscard_push ==
    /\ AtCloseParen
    /\ ~(operators # <<>> /\ Top(operators).value # "(")
    /\ operators' = IF operators # <<>> THEN Pop(operators) ELSE Append(operators, token)
    /\ next' = next + 1
    /\ UNCHANGED <<expression, resultVar, tokens, operands, tempCount, instructions,
                   pc, underflow>>

\* line 114
CloseParenDiscard ==
    /\ AtCloseParen
    /\ ~(operators # <<>> /\ Top(operators).value # "(")
    /\ operators' = IF operators # <<>> THEN Pop(operators) ELSE operators
    /\ next' = next + 1
    /\ UNCHANGED <<expression, resultVar, tokens, operands, tempCount, instructions,
                   pc, underflow>>

\* the range-for loop of line 93 ends
EndOfTokens ==
    /\ pc = "scan"
    /\ next > Len(tokens)
    /\ pc' = "drain"
    /\ UNCHANGED <<expression, resultVar, tokens, next, operators, operands, tempCount,
                   instructions, underflow>>

\* a variant that pops the remaining operators without reducing them
DrainReduce_drop ==
    /\ pc = "drain"
    /\ operators # <<>>
    /\ operators' = Pop(operators)
    /\ UNCHANGED <<expression, resultVar, tokens, next, operands, tempCount,
                   instructions, pc, underflow>>

\* lines 119-120: one iteration of the while loop
DrainReduce ==
    /\ pc = "drain"
    /\ operators # <<>>
    /\ processOperator

\* a variant that swaps the source and the destination of the assignment
FinalAssign_swapped ==
    /\ pc = "drain"
    /\ operators = <<>>
    /\ instructions' =
           IF operands # <<>>
           THEN Append(instructions, Instruction("=", resultVar, "", Top(operands)))
           ELSE instructions
    /\ pc' = "done"
    /\ UNCHANGED <<expression, resultVar, tokens, next, operators, operands, tempCount,
                   underflow>>

\* lines 123-126
FinalAssign ==
    /\ pc = "drain"
    /\ operators = <<>>
    /\ instructions' =
           IF operands # <<>>
           THEN Append(instructions, Instruction("=", Top(operands), "", resultVar))
           ELSE instructions
    /\ pc' = "done"
    /\ UNCHANGED <<expression, resultVar, tokens, next, operators, operands, tempCount,
                   underflow>>

Next ==
    \/ Lex
    \/ PushOperand
    \/ OperatorReduce
    \/ OperatorPush
    \/ OpenParen
    \/ CloseParenReduce
    \/ CloseParenDiscard
    \/ EndOfTokens
    \/ DrainReduce
    \/ FinalAssign

Spec == Init /\ [][Next]_vars

(***************************************************************************)
(* Vocabulary of the properties.                                           *)
(***************************************************************************)
IsOperand(t) == t.type = "NUMBER" \/ t.type = "VARIABLE"
IsOperator(t) == t.type = "OPERATOR"
IsOpen(t) == t.type = "PARENTHESIS" /\ t.value = "("
IsClose(t) == t.type = "PARENTHESIS" /\ t.value = ")"

\* the precedence table of the specification
SpecPrecedence(op) ==
    CASE op \in {"+", "-"} -> 1
      [] op \in {"*", "/", "%"} -> 2
      [] op = "^" -> 3
      [] OTHER -> 0

\* the names the temporaries must get, in order
TempNames == <<"t1", "t2", "t3", "t4", "t5", "t6", "t7", "t8", "t9">>

\* the instructions emitted by pop-and-reduce, in order
Reductions == SelectSeq(instructions, LAMBDA ins : ins.op # "=")

\* the characters of s, each followed by a blank except the last
Chars(s) == Spell([i \in 1..Len(s) |-> <<s[i]>>])

Returned == pc = "done"

\* the call is about to invoke pop-and-reduce
AboutToReduce == ENABLED OperatorReduce \/ ENABLED CloseParenReduce \/ ENABLED DrainReduce

(***************************************************************************)
(* C1.  Precedence: on x op1 y op2 z, with op2 of strictly higher          *)
(* precedence than op1, the call returns exactly (op2, y, z, t1),          *)
(* (op1, x, t1, t2), (=, t2, "", resultVar).                               *)
(***************************************************************************)
IsThreeOperandChain ==
    /\ Len(tokens) = 5
    /\ IsOperand(tokens[1]) /\ IsOperator(tokens[2]) /\ IsOperand(tokens[3])
    /\ IsOperator(tokens[4]) /\ IsOperand(tokens[5])

C1_Precedence ==
    (/\ Returned
     /\ IsThreeOperandChain
     /\ SpecPrecedence(tokens[4].value) > SpecPrecedence(tokens[2].value))
    => instructions =
           << Instruction(tokens[4].value, tokens[3].value, tokens[5].value, "t1"),
              Instruction(tokens[2].value, tokens[1].value, "t1", "t2"),
              Instruction("=", "t2", "", resultVar) >>

\* "a + b * c" with result variable "x" has returned t1 = b * c, t2 = a + t1, x = t2
C1_Witness ==
    /\ Returned
    /\ expression = Chars(<<"a", "+", "b", "*", "c">>)
    /\ resultVar = "x"
    /\ instructions = << Instruction("*", "b", "c", "t1"),
                         Instruction("+", "a", "t1", "t2"),
                         Instruction("=", "t2", "", "x") >>

(***************************************************************************)
(* C2.  Right-associativity of ^: on a chain x1 ^ x2 ^ ... ^ xn nothing is *)
(* reduced while the chain is read, an incoming ^ never pops a ^ on top of *)
(* the operator stack, and the reductions come right to left:              *)
(* (^, x(n-1), xn, t1), (^, x(n-2), t1, t2), ...                           *)
(***************************************************************************)
IsPowerChain ==
    /\ Len(tokens) % 2 = 1
    /\ \A i \in 1..Len(tokens) :
          IF i % 2 = 1 THEN IsOperand(tokens[i])
          ELSE IsOperator(tokens[i]) /\ tokens[i].value = "^"

\* the k-th reduction of a power chain of n operands
PowerReduction(k) ==
    LET n == (Len(tokens) + 1) \div 2
    IN  Instruction("^", tokens[2 * (n - k) - 1].value,
                    IF k = 1 THEN tokens[2 * n - 1].value ELSE TempNames[k - 1],
                    TempNames[k])

C2_RightAssociative ==
    /\ (AtToken /\ IsOperator(token) /\ token.value = "^"
            /\ operators # <<>> /\ Top(operators).value = "^")
       => ~ENABLED OperatorReduce
    /\ (IsPowerChain /\ pc = "scan") => instructions = <<>>
    /\ (IsPowerChain /\ Returned)
       => /\ Len(Reductions) = (Len(tokens) - 1) \div 2
          /\ \A k \in 1..Len(Reductions) : Reductions[k] = PowerReduction(k)

\* "a ^ b ^ c" has returned t1 = b ^ c, then t2 = a ^ t1
C2_Witness ==
    /\ Returned
    /\ expression = Chars(<<"a", "^", "b", "^", "c">>)
    /\ Len(instructions) = 3
    /\ instructions[1] = Instruction("^", "b", "c", "t1")
    /\ instructions[2] = Instruction("^", "a", "t1", "t2")

(***************************************************************************)
(* C3.  Parentheses override precedence: on ( x op1 y ) op2 z, whatever    *)
(* the operators, the call returns (op1, x, y, t1), (op2, t1, z, t2) and   *)
(* the final assignment; and an operator that arrives while an open        *)
(* parenthesis is on top of the operator stack reduces nothing.            *)
(***************************************************************************)
IsParenthesizedLeft ==
    /\ Len(tokens) = 7
    /\ IsOpen(tokens[1]) /\ IsOperand(tokens[2]) /\ IsOperator(tokens[3])
    /\ IsOperand(tokens[4]) /\ IsClose(tokens[5]) /\ IsOperator(tokens[6])
    /\ IsOperand(tokens[7])

C3_Parentheses ==
    /\ (AtToken /\ IsOperator(token) /\ operators # <<>> /\ IsOpen(Top(operators)))
       => ~ENABLED OperatorReduce
    /\ (IsParenthesizedLeft /\ Returned)
       => instructions =
              << Instruction(tokens[3].value, tokens[2].value, tokens[4].value, "t1"),
                 Instruction(tokens[6].value, "t1", tokens[7].value, "t2"),
                 Instruction("=", "t2", "", resultVar) >>

\* "( a + b ) * c" has returned t1 = a + b, then t2 = t1 * c
C3_Witness ==
    /\ Returned
    /\ expression = Chars(<<"(", "a", "+", "b", ")", "*", "c">>)
    /\ Len(instructions) = 3
    /\ instructions[1] = Instruction("+", "a", "b", "t1")
    /\ instructions[2] = Instruction("*", "t1", "c", "t2")

(***************************************************************************)
(* C4.  Unmatched open parentheses are never reduced: no emitted           *)
(* instruction has "(" as its operator.  Stated for the runs in which no   *)
(* pop-and-reduce found fewer than two operands.                           *)
(***************************************************************************)
C4_OpenParenNeverReduced ==
    ~underflow => \A i \in 1..Len(instructions) : instructions[i].op # "("

(***************************************************************************)
(* C5.  An extra close parenthesis is a no-op: a step that processes a     *)
(* ")" while the operator stack holds no open parenthesis emits nothing    *)
(* and leaves the operand stack, the operator stack and the counter alone. *)
(* Stated for the steps that do not underflow the operand stack.           *)
(***************************************************************************)
NoOpenParen == \A i \in 1..Len(operators) : ~IsOpen(operators[i])

C5_ExtraCloseIsNoOp ==
    [][(AtCloseParen /\ NoOpenParen /\ ~underflow')
           => UNCHANGED <<instructions, operands, operators, tempCount>>]_vars

\* C5 as amended: a step that processes a ")" while the operator stack is
\* empty emits nothing and leaves both stacks and the counter alone.
C5_CloseOnEmptyStackIsNoOp ==
    [][(AtCloseParen /\ operators = <<>>)
           => UNCHANGED <<instructions, operands, operators, tempCount>>]_vars

\* "a )" : the ")" was processed on an empty operator stack and changed nothing
C5_Witness ==
    /\ pc = "scan"
    /\ Len(tokens) >= 2 /\ IsOperand(tokens[1]) /\ IsClose(tokens[2])
    /\ next = 3
    /\ operands = <<tokens[1].value>>
    /\ operators = <<>>
    /\ instructions = <<>>
    /\ tempCount = 1

(***************************************************************************)
(* C6.  Final instruction: for any non-empty expression string the call    *)
(* returns a non-empty sequence whose last instruction is                  *)
(* (=, top of the operand stack, "", resultVar), and no other instruction  *)
(* has the operator "=".  Stated for the runs without underflow.           *)
(***************************************************************************)
EndsWithAssignment ==
    /\ instructions # <<>>
    /\ instructions[Len(instructions)] = Instruction("=", Top(operands), "", resultVar)
    /\ \A i \in 1..(Len(instructions) - 1) : instructions[i].op # "="

C6_FinalForNonEmptyString ==
    (Returned /\ ~underflow /\ expression # <<>>) => EndsWithAssignment

\* C6 as amended: the same for any expression that holds at least one operand
\* token and is processed without a pop-and-reduce on fewer than two operands.
C6_FinalWhenOperandPresent ==
    (Returned /\ ~underflow /\ \E i \in 1..Len(tokens) : IsOperand(tokens[i]))
    => EndsWithAssignment

\* "1+a" with result variable "y" has returned t1 = 1 + a, y = t1
C6_Witness ==
    /\ Returned
    /\ expression = <<"1", "+", "a">>
    /\ resultVar = "y"
    /\ instructions = <<Instruction("+", "1", "a", "t1"), Instruction("=", "t1", "", "y")>>

(***************************************************************************)
(* C7.  For a fully parenthesized expression the number of instructions    *)
(* other than the final assignment equals the number of operator tokens.   *)
(* F ::= operand | ( F op F ); the outermost pair of parentheses may be    *)
(* left out.                                                               *)
(***************************************************************************)
\* the position after the F that starts at ts[i], or 0 when there is none
RECURSIVE FullEnd(_, _)
FullEnd(ts, i) ==
    IF i > Len(ts) THEN 0
    ELSE IF IsOperand(ts[i]) THEN i + 1
    ELSE IF IsOpen(ts[i])
         THEN LET j == FullEnd(ts, i + 1)
              IN  IF j = 0 \/ j > Len(ts) \/ ~IsOperator(ts[j]) THEN 0
                  ELSE LET k == FullEnd(ts, j + 1)
                       IN  IF k = 0 \/ k > Len(ts) \/ ~IsClose(ts[k]) THEN 0 ELSE k + 1
    ELSE 0

IsFullyParenthesized(ts) ==
    \/ FullEnd(ts, 1) = Len(ts) + 1
    \/ LET j == FullEnd(ts, 1)
       IN  j # 0 /\ j <= Len(ts) /\ IsOperator(ts[j]) /\ FullEnd(ts, j + 1) = Len(ts) + 1

NumOperators == Cardinality({i \in 1..Len(tokens) : IsOperator(tokens[i])})

C7_OneInstructionPerOperator ==
    (Returned /\ IsFullyParenthesized(tokens))
    => /\ Len(Reductions) = NumOperators
       /\ Len(instructions) = NumOperators + 1

\* "( ( a + b ) * c )" has returned two reductions
C7_Witness ==
    /\ Returned
    /\ expression = Chars(<<"(", "(", "a", "+", "b", ")", "*", "c", ")">>)
    /\ Len(Reductions) = 2
    /\ Len(instructions) = 3

(***************************************************************************)
(* C8.  Temporary names: the counter starts at 1, and in every state the   *)
(* results of the reductions emitted so far are t1, t2, ..., tn with       *)
(* n = tempCount - 1.  Stated for the states reached without underflow.    *)
(***************************************************************************)
C8_TempNames ==
    /\ pc = "lex" => tempCount = 1
    /\ ~underflow
       => /\ Len(Reductions) = tempCount - 1
          /\ \A k \in 1..Len(Reductions) : Reductions[k].result = TempNames[k]

\* three reductions were emitted, named t1, t2, t3
C8_Witness ==
    /\ ~underflow
    /\ tempCount = 4
    /\ Len(Reductions) = 3
    /\ Reductions[3].result = "t3"

(***************************************************************************)
(* The reference grammar, parsed by precedence climbing:                   *)
(*   + - below * / % below ^ ; ^ right-associative, the others             *)
(*   left-associative; a primary is an operand or a parenthesized          *)
(*   expression.                                                           *)
(* A tree is <<"leaf", name>> or <<"node", op, left, right>>.              *)
(***************************************************************************)
Leaf(v) == <<"leaf", v>>
Node(op, l, r) == <<"node", op, l, r>>
NoParse == [ok |-> FALSE, tree |-> <<>>, pos |-> 0]
Parsed(t, p) == [ok |-> TRUE, tree |-> t, pos |-> p]

RECURSIVE ParseExpr(_, _, _), ParsePrimary(_, _), Climb(_, _, _)

\* the primary that starts at ts[i]
ParsePrimary(ts, i) ==
    IF i > Len(ts) THEN NoParse
    ELSE IF IsOperand(ts[i]) THEN Parsed(Leaf(ts[i].value), i + 1)
    ELSE IF IsOpen(ts[i])
         THEN LET e == ParseExpr(ts, i + 1, 1)
              IN  IF e.ok /\ e.pos <= Len(ts) /\ IsClose(ts[e.pos])
                  THEN Parsed(e.tree, e.pos + 1)
                  ELSE NoParse
    ELSE NoParse

\* lhs was parsed; take the operators of precedence at least min that follow
Climb(ts, lhs, min) ==
    IF ~lhs.ok THEN NoParse
    ELSE IF lhs.pos > Len(ts) \/ ~IsOperator(ts[lhs.pos]) THEN lhs
    ELSE LET op == ts[lhs.pos].value
             p == SpecPrecedence(op)
         IN  IF p < min THEN lhs
             ELSE LET rhs == ParseExpr(ts, lhs.pos + 1, IF op = "^" THEN p ELSE p + 1)
                  IN  IF rhs.ok
                      THEN Climb(ts, Parsed(Node(op, lhs.tree, rhs.tree), rhs.pos), min)
                      ELSE NoParse

\* the expression of operators of precedence at least min that starts at ts[i]
ParseExpr(ts, i, min) == Climb(ts, ParsePrimary(ts, i), min)

Reference(ts) == ParseExpr(ts, 1, 1)

IsWellFormed(ts) == LET r == Reference(ts) IN r.ok /\ r.pos = Len(ts) + 1

(***************************************************************************)
(* C9.  Operand-stack safety: on a well-formed expression every            *)
(* invocation of pop-and-reduce finds at least two operands, no underflow  *)
(* happens, and at the end the operand stack holds exactly one entry.      *)
(***************************************************************************)
C9_OperandStackSafe ==
    (\/ underflow
     \/ pc = "crashed"
     \/ AboutToReduce /\ Len(operands) < 2
     \/ Returned /\ Len(operands) # 1)
    => ~IsWellFormed(tokens)

\* "a * ( b - c ) / d" is about to be reduced with two operands on the stack
C9_Witness ==
    /\ expression = Chars(<<"a", "*", "(", "b", "-", "c", ")", "/", "d">>)
    /\ IsWellFormed(tokens)
    /\ pc = "drain"
    /\ AboutToReduce
    /\ Len(operands) = 2
    /\ Len(Reductions) = 2

(***************************************************************************)
(* The tree an instruction sequence denotes, and the uses of its names.    *)
(***************************************************************************)
\* the tree that name denotes at instruction i: a name defined by an earlier
\* instruction stands for that instruction, any other name for itself
RECURSIVE Expand(_, _)
Expand(name, i) ==
    LET defs == {j \in 1..(i - 1) : instructions[j].result = name}
    IN  IF defs = {} THEN Leaf(name)
        ELSE LET j == CHOOSE d \in defs : \A d2 \in defs : d2 <= d
             IN  Node(instructions[j].op, Expand(instructions[j].arg1, j),
                      Expand(instructions[j].arg2, j))

\* the tree of the final assignment's source
ResultTree == Expand(instructions[Len(instructions)].arg1, Len(instructions))

\* the places (instruction, argument) at which name is read
Uses(name) ==
    {<<i, a>> \in (1..Len(instructions)) \X {1, 2} :
        IF a = 1 THEN instructions[i].arg1 = name
        ELSE instructions[i].op # "=" /\ instructions[i].arg2 = name}

\* every temporary is read exactly once, by a later instruction
DefinedBeforeUsedOnce ==
    \A k \in 1..(Len(instructions) - 1) :
        /\ Cardinality(Uses(instructions[k].result)) = 1
        /\ \A u \in Uses(instructions[k].result) : u[1] > k

(***************************************************************************)
(* C10.  Agreement with the reference parse: on a well-formed expression   *)
(* the final assignment's source, with every temporary replaced by the     *)
(* instruction that defines it, is exactly the tree of the reference       *)
(* grammar.  (The claim adds that every temporary is defined before it is  *)
(* used and used exactly once; the agreement of the trees alone is stated  *)
(* here.)                                                                  *)
(***************************************************************************)
C10_AgreesWithReference ==
    (Returned /\ ~underflow /\ IsWellFormed(tokens))
    => instructions # <<>> /\ ResultTree = Reference(tokens).tree

\* an operand spelled like a temporary
IsTempName(v) == \E k \in 1..Len(TempNames) : v = TempNames[k]

\* The whole of C10 for the well-formed expressions none of whose operands is
\* spelled like a temporary: the trees agree, and every temporary is defined
\* before it is used and used exactly once.
AgreesForPlainOperands ==
    (/\ Returned
     /\ ~underflow
     /\ IsWellFormed(tokens)
     /\ \A i \in 1..Len(tokens) : ~IsTempName(tokens[i].value))
    => /\ instructions # <<>>
       /\ ResultTree = Reference(tokens).tree
       /\ DefinedBeforeUsedOnce

\* "a - b - c" has returned (a - b) - c
AgreesForPlainOperands_Witness ==
    /\ Returned
    /\ expression = Chars(<<"a", "-", "b", "-", "c">>)
    /\ ResultTree = Node("-", Node("-", Leaf("a"), Leaf("b")), Leaf("c"))

====
